---- MODULE Spec2Model ----
(***************************************************************************)
(* PomodoroWorkTracker: the session engine (src/src/session.py), the       *)
(* SQLite store with its retry loop (src/src/database.py) and the process  *)
(* start-up sweep.  Times are seconds read from the system clock; both     *)
(* datetime.now() and time.time() read that clock.                         *)
(***************************************************************************)
EXTENDS Integers, Sequences, FiniteSets, TLC

(***************************************************************************)
(* Bounds of the model                                                     *)
(***************************************************************************)
MaxClock == 450
MaxClockFine == 480
MaxSessions == 2
MaxSessionsFine == 1
MaxExtends == 2
MaxPaused == 6
MaxEvents == 4
MaxClockIdle == 48300
MaxSessionsIdle == 1
MaxClockLoop == 48300
MaxSessionsLoop == 1
MaxPausedLoop == 110
MaxThreads == 2
MaxClockSnooze == 36180
MaxSessionsSnooze == 1
MaxClockGap == 42600
MaxSessionsGap == 1
MaxPausedGap == 24

(***************************************************************************)
(* Program constants                                                       *)
(***************************************************************************)
default_pomodoro_minutes == 25
sleep_gap_threshold_minutes == 5
SecondsPerMinute == 60
max_retries == 3
backoff_base_ms == 100
idle_warning_minutes == 30
idle_check_interval_seconds == 60
snooze_minutes == 30
long_session_minutes == 120
long_session_recheck_seconds == 300
continue_minutes == 25

(***************************************************************************)
(* Input sets                                                              *)
(***************************************************************************)
ClockStart == 2 * SecondsPerMinute
MinClock == 2 * SecondsPerMinute
Dts == {330}
DtsFine == {120, 330}
Rollbacks == {120}
TaskIds == {1}
TargetInputs == {0}
TargetInputsFine == {0, 2}
ExtendInputs == {5}
ExtendInputsFine == {5, 10}
PauseInputs == {6}
PromptChoices == {"y", "n", "s"}
CompleteChoices == {"d", "c", "s", "b"}
MenuChoices == {"s", "r", "c"}

\* Python's None / SQL NULL, and a present value
Null == <<>>
Some(v) == <<v>>

StartInputs == {[task |-> Null, dir |-> Null],
                [task |-> Some(1), dir |-> Some("dir")]}
StartInputsFine == {[task |-> Null, dir |-> Null]}
StopInputs == {[outcome |-> Some("done"), files |-> Some("a.py")]}

\* int(x / d) of Python: truncation toward zero
IntTrunc(n, d) == IF n >= 0 THEN n \div d ELSE -((-n) \div d)

RECURSIVE Pow2(_)
Pow2(n) == IF n = 0 THEN 1 ELSE 2 * Pow2(n - 1)

RECURSIVE SumSeq(_)
SumSeq(s) == IF s = <<>> THEN 0 ELSE Head(s) + SumSeq(Tail(s))

(***************************************************************************)
(* Database.get_connection: the retry loop around one store operation.     *)
(* events[k] is what the environment does to attempt k-1:                  *)
(*   "ok"             connect and statement succeed                        *)
(*   "connect_locked" sqlite3.connect / PRAGMA raises "database is locked" *)
(*   "connect_error"  sqlite3.connect raises another OperationalError      *)
(*   "body_locked"    the statement run by the caller raises "locked"      *)
(*   "body_error"     the statement run by the caller raises another error *)
(***************************************************************************)
AttemptEvents == {"ok", "connect_locked", "connect_error", "body_locked", "body_error"}
EventSeqs == [1..MaxEvents -> AttemptEvents]

EventAt(events, i) == IF i <= Len(events) THEN events[i] ELSE "ok"

IsLocked_any_error(e) == e # "ok"

\* "locked" in str(e).lower()
IsLocked(e) == e \in {"connect_locked", "body_locked"}

wait_time_from_one(attempt) == Pow2(attempt + 1) * backoff_base_ms

\* wait_time = (2 ** attempt) * 0.1 seconds, in milliseconds
wait_time(attempt) == Pow2(attempt) * backoff_base_ms

may_retry_one_short(attempt) == attempt < max_retries - 2

\* if attempt < max_retries - 1
may_retry(attempt) == attempt < max_retries - 1

RECURSIVE get_connection_loop(_, _, _, _)
get_connection_loop(events, attempt, slept, yielded) ==
  IF attempt >= max_retries
  THEN \* after the for loop: "Database locked after N attempts ..."
       [result |-> "StoreLocked", attempts |-> attempt, slept |-> slept, applied |-> FALSE]
  ELSE LET e == EventAt(events, attempt + 1)
           raised == [result |-> IF IsLocked(e) THEN "LockedError" ELSE "OtherError",
                      attempts |-> attempt + 1, slept |-> slept, applied |-> FALSE]
       IN IF e \in {"connect_locked", "connect_error"}
          THEN \* except sqlite3.OperationalError, raised before the yield
               IF IsLocked(e) /\ may_retry(attempt)
               THEN get_connection_loop(events, attempt + 1,
                                        Append(slept, wait_time(attempt)), yielded)
               ELSE raised
          ELSE IF yielded
          THEN \* a second yield inside gen.throw(): contextlib raises
               \* RuntimeError("generator didn't stop after throw()")
               [result |-> "RuntimeError", attempts |-> attempt + 1,
                slept |-> slept, applied |-> FALSE]
          ELSE IF e = "ok"
          THEN [result |-> "ok", attempts |-> attempt + 1, slept |-> slept, applied |-> TRUE]
          ELSE \* the statement raised: the exception is thrown in at the yield
               IF IsLocked(e) /\ may_retry(attempt)
               THEN get_connection_loop(events, attempt + 1,
                                        Append(slept, wait_time(attempt)), TRUE)
               ELSE raised

get_connection(events) == get_connection_loop(events, 0, <<>>, FALSE)

\* What a caller of db.execute / db.fetch_one can observe
StoreResults == {get_connection(ev).result : ev \in EventSeqs}

\* The exception a failed store call lets through to the engine's caller;
\* SpecStore tells its kinds apart
Raised(r) == IF r = "ok" THEN "ok" ELSE "StoreError"
CallResults == {Raised(r) : r \in StoreResults}

(***************************************************************************)
(* State                                                                   *)
(***************************************************************************)
VARIABLES
  clock,                   \* system clock, seconds
  up,                      \* the process is running (Database() was constructed)
  sessions,                \* table sessions, row id = position
  tasks,                   \* tasks.last_worked by task id
  current_session,         \* SessionManager.current_session
  file_tracker,            \* SessionManager.file_tracker
  last_tick,               \* SessionManager.last_tick
  session_start_realtime,  \* SessionManager.session_start_realtime
  lastOp,                  \* the last engine call
  lastResult,              \* what it returned or raised
  targetLog,               \* history: the current session's first target, then each
                           \* amount a successful extend added
  dbEvents,                \* input of one store operation
  dbCall,                  \* its observed outcome
  last_idle_check,         \* PomodoroCLI.last_idle_check
  shown_startup_prompt,    \* PomodoroCLI.shown_startup_prompt
  idle_prompt,             \* what the last idle check showed
  last_long_session_check, \* PomodoroCLI.last_long_session_check
  live,                    \* position of the interactive front end and the
                           \* locals gap, elapsed of live_session_display
  calls,                   \* per thread: its position in the monitor loop and in
                           \* a start_session call, and that call's locals
  monitor                  \* IdleMonitor.running, IdleMonitor.thread, and
                           \* whether stop() is waiting in join

engineVars == <<current_session, file_tracker, last_tick, session_start_realtime>>
storeVars == <<sessions, tasks>>
histVars == <<targetLog>>
dbVars == <<dbEvents, dbCall>>
cliVars == <<last_idle_check, shown_startup_prompt, idle_prompt, last_long_session_check, live>>
thrVars == <<calls, monitor>>
vars == <<clock, up, sessions, tasks, current_session, file_tracker, last_tick,
          session_start_realtime, lastOp, lastResult, targetLog, dbEvents, dbCall,
          last_idle_check, shown_startup_prompt, idle_prompt, last_long_session_check,
          live, calls, monitor>>

NoCall == [result |-> "none", attempts |-> 0, slept |-> <<>>, applied |-> FALSE]

InitEngine ==
  /\ clock = ClockStart
  /\ up = TRUE
  /\ sessions = <<>>
  /\ tasks = [t \in TaskIds |-> Null]
  /\ current_session = Null
  /\ file_tracker = Null
  /\ last_tick = Null
  /\ session_start_realtime = Null
  /\ lastOp = "restart"
  /\ lastResult = "ok"
  /\ targetLog = <<>>

NoCheck == [kind |-> "none", minutes |-> Null]

\* the engine used without the interactive front end
At(pc) == [pc |-> pc, gap |-> 0, elapsed |-> 0]

NoCli ==
  /\ last_idle_check = Null
  /\ shown_startup_prompt = FALSE
  /\ idle_prompt = NoCheck
  /\ last_long_session_check = Null
  /\ live = At("off")

\* threads of the process: the main thread and the threads IdleMonitor.start creates
MainThread == 0
MonitorThreads == 1..MaxThreads
Threads == {MainThread} \cup MonitorThreads

NoCallInFlight(pc) == [pc |-> pc, id |-> 0, result |-> "none"]

\* IdleMonitor.__init__: running False, thread None; no thread created yet
NoThreads ==
  /\ calls = [c \in Threads |-> NoCallInFlight(IF c = MainThread THEN "ready" ELSE "unborn")]
  /\ monitor = [running |-> FALSE, thread |-> Null, joining |-> FALSE]

Init ==
  /\ InitEngine
  /\ NoCli
  /\ NoThreads
  /\ dbEvents = <<>>
  /\ dbCall = NoCall

(***************************************************************************)
(* Clocks and pure queries of SessionManager                               *)
(***************************************************************************)
datetime_now == clock
time_time == clock
\* SQLite datetime('now'), whole seconds
sqlite_now == clock

\* `if self.current_session`
is_active == current_session # Null

start_refused_by_tracker == file_tracker # Null

\* start_session: `if self.current_session: raise ValueError(...)`
start_refused == current_session # Null

\* `if self.session_start_realtime`: None and 0.0 are both false
Truthy(x) == x # Null /\ x[1] # 0

\* target = target_minutes or config.default_pomodoro_minutes
start_target(target_minutes) ==
  IF target_minutes # 0 THEN target_minutes ELSE default_pomodoro_minutes

stop_duration_rounded(now, start_time) ==
  IntTrunc(2 * (now - start_time) + SecondsPerMinute, 2 * SecondsPerMinute)

\* duration_minutes = int((now - start_dt).total_seconds() / 60)
stop_duration(now, start_time) == IntTrunc(now - start_time, SecondsPerMinute)

extend_overwrite(target, additional_minutes) == additional_minutes

\* new_target = self.current_session.target_minutes + additional_minutes
extend_target(target, additional_minutes) == target + additional_minutes

pause_replace(paused, pause_duration_minutes) == pause_duration_minutes

\* new_paused = self.current_session.paused_duration + pause_duration_minutes
pause_total(paused, pause_duration_minutes) == paused + pause_duration_minutes

pause_idle_raises == "NoActiveSession"

\* pause_session with no current session: `return`
pause_idle_result == "ok"

gap_exceeds_whole_minutes(gapSeconds) ==
  IntTrunc(gapSeconds, SecondsPerMinute) > sleep_gap_threshold_minutes

\* gap = (now - self.last_tick).total_seconds() / 60;  gap > threshold
gap_exceeds(gapSeconds) ==
  gapSeconds > sleep_gap_threshold_minutes * SecondsPerMinute

check_for_sleep_gap ==
  IF ~is_active \/ last_tick = Null
  THEN Null
  ELSE LET gapSeconds == datetime_now - last_tick[1]
       IN IF gap_exceeds(gapSeconds)
          THEN Some(IntTrunc(gapSeconds, SecondsPerMinute))
          ELSE Null

get_elapsed_minutes ==
  IF ~is_active
  THEN 0
  ELSE IF Truthy(session_start_realtime)
       THEN IntTrunc(time_time - session_start_realtime[1], SecondsPerMinute)
       ELSE IntTrunc(datetime_now - current_session[1].start_time, SecondsPerMinute)

Max(a, b) == IF a >= b THEN a ELSE b

get_remaining_unclamped ==
  IF ~is_active
  THEN 0
  ELSE current_session[1].target_minutes - get_elapsed_minutes

\* remaining = target_minutes - elapsed; return max(0, remaining)
get_remaining_minutes ==
  IF ~is_active
  THEN 0
  ELSE LET elapsed == get_elapsed_minutes
           remaining == current_session[1].target_minutes - elapsed
       IN Max(0, remaining)

\* return self.get_elapsed_minutes() >= self.current_session.target_minutes
is_overtime ==
  IF ~is_active
  THEN FALSE
  ELSE get_elapsed_minutes >= current_session[1].target_minutes

(***************************************************************************)
(* The store: rows and statements                                          *)
(***************************************************************************)
\* INSERT INTO sessions (...) VALUES (..., 'active'), with the column defaults
NewRow(task, working_directory, target_minutes) ==
  [id |-> Len(sessions) + 1,
   task_id |-> task,
   start_time |-> datetime_now,
   end_time |-> Null,
   duration_minutes |-> Null,
   target_minutes |-> start_target(target_minutes),
   outcome |-> Null,
   files_modified |-> Null,
   paused_duration |-> 0,
   status |-> "active"]

cleanup_all_rows(rows) ==
  [i \in DOMAIN rows |-> [rows[i] EXCEPT !.status = "cancelled",
                                          !.end_time = Some(sqlite_now)]]

\* UPDATE sessions SET status='cancelled', end_time=datetime('now') WHERE status='active'
cleanup_interrupted_sessions(rows) ==
  [i \in DOMAIN rows |->
     IF rows[i].status = "active"
     THEN [rows[i] EXCEPT !.status = "cancelled", !.end_time = Some(sqlite_now)]
     ELSE rows[i]]

cancel_row_with_duration(row, now) ==
  [row EXCEPT !.end_time = Some(now),
              !.duration_minutes = Some(stop_duration(now, row.start_time)),
              !.status = "cancelled"]

\* UPDATE sessions SET end_time = ?, status = 'cancelled' WHERE id = ?
cancel_row(row, now) == [row EXCEPT !.end_time = Some(now), !.status = "cancelled"]

extend_row_resets_pause(row, new_target) ==
  [row EXCEPT !.target_minutes = new_target, !.paused_duration = 0]

\* UPDATE sessions SET target_minutes = ? WHERE id = ?
extend_row(row, new_target) == [row EXCEPT !.target_minutes = new_target]

ActiveRows(rows) == {i \in DOMAIN rows : rows[i].status = "active"}

\* cursor.rowcount of the sweep's UPDATE
rowcount(rows) == Cardinality(ActiveRows(rows))

ClearRuntime_keeps_tick ==
  /\ current_session' = Null
  /\ file_tracker' = Null
  /\ UNCHANGED last_tick
  /\ session_start_realtime' = Null
  /\ targetLog' = <<>>

\* self.current_session = None; self.file_tracker = None; self.last_tick = None;
\* self.session_start_realtime = None
ClearRuntime ==
  /\ current_session' = Null
  /\ file_tracker' = Null
  /\ last_tick' = Null
  /\ session_start_realtime' = Null
  /\ targetLog' = <<>>

(***************************************************************************)
(* Process start: Database.__init__ -> _ensure_initialized.  A failure of  *)
(* either statement aborts the import and the process does not come up.    *)
(***************************************************************************)
Restart(r1, r2) ==
    /\ ClearRuntime
    /\ IF r1 # "ok"
       THEN \* _create_schema raised
            /\ up' = FALSE
            /\ lastOp' = "restart"
            /\ lastResult' = r1
            /\ UNCHANGED sessions
       ELSE IF r2 # "ok"
       THEN \* _cleanup_interrupted_sessions raised
            /\ up' = FALSE
            /\ lastOp' = "restart"
            /\ lastResult' = r2
            /\ UNCHANGED sessions
       ELSE /\ up' = TRUE
            /\ lastOp' = IF rowcount(sessions) > 0 THEN "restart_interrupted" ELSE "restart"
            /\ lastResult' = "ok"
            /\ sessions' = cleanup_interrupted_sessions(sessions)
    /\ UNCHANGED <<clock, tasks, dbVars>>

(***************************************************************************)
(* SessionManager operations                                               *)
(***************************************************************************)
\* limit bounds the table; r1, r2, r3 are the results of the three store calls
start_session(task, working_directory, target_minutes, r1, r2, r3, limit) ==
  /\ up
  /\ lastOp' = "start"
  /\ UNCHANGED <<clock, up, dbVars>>
  /\ IF start_refused
     THEN /\ lastResult' = "AlreadyActive"
          /\ UNCHANGED <<storeVars, engineVars, histVars>>
     ELSE /\ Len(sessions) < limit
          /\ LET row == NewRow(task, working_directory, target_minutes) IN
               IF r1 # "ok"
               THEN \* the INSERT raised
                    /\ lastResult' = r1
                    /\ UNCHANGED <<storeVars, engineVars, histVars>>
               ELSE IF r2 # "ok"
               THEN \* the row is inserted; loading it back raised
                    /\ sessions' = Append(sessions, row)
                    /\ lastResult' = r2
                    /\ UNCHANGED <<tasks, engineVars, histVars>>
               ELSE /\ sessions' = Append(sessions, row)
                    /\ current_session' = Some(row)
                    /\ last_tick' = Some(datetime_now)
                    /\ session_start_realtime' = Some(time_time)
                    /\ file_tracker' = working_directory
                    /\ targetLog' = <<row.target_minutes>>
                    /\ IF task # Null /\ r3 = "ok"
                       THEN /\ tasks' = [tasks EXCEPT ![task[1]] = Some(datetime_now)]
                            /\ lastResult' = "ok"
                       ELSE /\ UNCHANGED tasks
                            /\ lastResult' = IF task # Null THEN r3 ELSE "ok"

stop_session(outcome, files_to_log, r1, r2) ==
  /\ up
  /\ lastOp' = "stop"
  /\ UNCHANGED <<clock, up, tasks, dbVars>>
  /\ IF ~is_active
     THEN /\ lastResult' = "NoActiveSession"
          /\ UNCHANGED <<sessions, engineVars, histVars>>
     ELSE LET cs == current_session[1]
                now == datetime_now
                done == [sessions EXCEPT ![cs.id] =
                           [@ EXCEPT !.end_time = Some(now),
                                     !.duration_minutes = Some(stop_duration(now, cs.start_time)),
                                     !.outcome = outcome,
                                     !.files_modified = files_to_log,
                                     !.status = "completed"]]
            IN IF r1 # "ok"
               THEN /\ lastResult' = r1
                    /\ UNCHANGED <<sessions, engineVars, histVars>>
               ELSE IF r2 # "ok"
               THEN \* the UPDATE is committed; the reload raised
                    /\ sessions' = done
                    /\ lastResult' = r2
                    /\ UNCHANGED <<engineVars, histVars>>
               ELSE /\ sessions' = done
                    /\ lastResult' = "ok"
                    /\ ClearRuntime

cancel_session(r1, r2) ==
  /\ up
  /\ lastOp' = "cancel"
  /\ UNCHANGED <<clock, up, tasks, dbVars>>
  /\ IF ~is_active
     THEN /\ lastResult' = "NoActiveSession"
          /\ UNCHANGED <<sessions, engineVars, histVars>>
     ELSE LET cs == current_session[1]
                cancelled == [sessions EXCEPT ![cs.id] = cancel_row(@, datetime_now)]
            IN IF r1 # "ok"
               THEN /\ lastResult' = r1
                    /\ UNCHANGED <<sessions, engineVars, histVars>>
               ELSE IF r2 # "ok"
               THEN /\ sessions' = cancelled
                    /\ lastResult' = r2
                    /\ UNCHANGED <<engineVars, histVars>>
               ELSE /\ sessions' = cancelled
                    /\ lastResult' = "ok"
                    /\ ClearRuntime

extend_session(additional_minutes, r1) ==
  /\ up
  /\ lastOp' = "extend"
  /\ UNCHANGED <<clock, up, tasks, file_tracker, last_tick, session_start_realtime,
                 dbVars>>
  /\ IF ~is_active
     THEN /\ lastResult' = "NoActiveSession"
          /\ UNCHANGED <<sessions, current_session, targetLog>>
     ELSE /\ Len(targetLog) <= MaxExtends
          /\ LET cs == current_session[1]
                   new_target == extend_target(cs.target_minutes, additional_minutes)
               IN IF r1 # "ok"
                  THEN /\ lastResult' = r1
                       /\ UNCHANGED <<sessions, current_session, targetLog>>
                  ELSE /\ sessions' = [sessions EXCEPT ![cs.id] = extend_row(@, new_target)]
                       /\ current_session' = Some([cs EXCEPT !.target_minutes = new_target])
                       /\ targetLog' = Append(targetLog, additional_minutes)
                       /\ lastResult' = "ok"

\* limit bounds the accumulated pause
pause_session(pause_duration_minutes, r1, limit) ==
  /\ up
  /\ lastOp' = "pause"
  /\ UNCHANGED <<clock, up, tasks, file_tracker, last_tick, session_start_realtime,
                 histVars, dbVars>>
  /\ IF ~is_active
     THEN /\ lastResult' = pause_idle_result
          /\ UNCHANGED <<sessions, current_session>>
     ELSE /\ current_session[1].paused_duration + pause_duration_minutes <= limit
          /\ LET cs == current_session[1]
                   new_paused == pause_total(cs.paused_duration, pause_duration_minutes)
               IN IF r1 # "ok"
                  THEN /\ lastResult' = r1
                       /\ UNCHANGED <<sessions, current_session>>
                  ELSE /\ sessions' = [sessions EXCEPT ![cs.id].paused_duration = new_paused]
                       /\ current_session' = Some([cs EXCEPT !.paused_duration = new_paused])
                       /\ lastResult' = "ok"

\* update_tick, called by the live loop while a session is current
update_tick ==
  /\ up
  /\ is_active
  /\ last_tick' = Some(datetime_now)
  /\ UNCHANGED <<clock, up, storeVars, current_session, file_tracker,
                 session_start_realtime, lastOp, lastResult, targetLog, dbVars>>

(***************************************************************************)
(* Environment: time passes; the system clock is set back                  *)
(***************************************************************************)
time_passes(dt, limit) ==
  /\ clock + dt <= limit
  /\ clock' = clock + dt
  /\ UNCHANGED <<up, storeVars, engineVars, lastOp, lastResult, histVars, dbVars>>

clock_set_back(d) ==
  /\ clock - d >= MinClock
  /\ clock' = clock - d
  /\ UNCHANGED <<up, storeVars, engineVars, lastOp, lastResult, histVars, dbVars>>

(***************************************************************************)
(* Spec: the engine and the store over process lifetimes; every store      *)
(* call may fail                                                           *)
(***************************************************************************)
ProcessStart ==
  /\ \E r1, r2 \in CallResults : Restart(r1, r2)
  /\ UNCHANGED <<cliVars, thrVars>>
Start ==
  /\ \E a \in StartInputs, tm \in TargetInputs, r1, r2, r3 \in CallResults :
       start_session(a.task, a.dir, tm, r1, r2, r3, MaxSessions)
  /\ UNCHANGED <<cliVars, thrVars>>
Stop ==
  /\ \E a \in StopInputs, r1, r2 \in CallResults : stop_session(a.outcome, a.files, r1, r2)
  /\ UNCHANGED <<cliVars, thrVars>>
Cancel ==
  /\ \E r1, r2 \in CallResults : cancel_session(r1, r2)
  /\ UNCHANGED <<cliVars, thrVars>>
Extend ==
  /\ \E m \in ExtendInputs, r1 \in CallResults : extend_session(m, r1)
  /\ UNCHANGED <<cliVars, thrVars>>
Pause ==
  /\ \E m \in PauseInputs, r1 \in CallResults : pause_session(m, r1, MaxPaused)
  /\ UNCHANGED <<cliVars, thrVars>>
Tick ==
  /\ update_tick
  /\ UNCHANGED <<cliVars, thrVars>>
Advance ==
  /\ \E dt \in Dts : time_passes(dt, MaxClock)
  /\ UNCHANGED <<cliVars, thrVars>>

Next ==
  \/ ProcessStart
  \/ Start
  \/ Stop
  \/ Cancel
  \/ Extend
  \/ Pause
  \/ Tick
  \/ Advance

Spec == Init /\ [][Next]_vars

(***************************************************************************)
(* SpecSession: one process whose store calls succeed, on a finer clock    *)
(***************************************************************************)
StartS ==
  /\ \E a \in StartInputsFine, tm \in TargetInputsFine :
       start_session(a.task, a.dir, tm, "ok", "ok", "ok", MaxSessionsFine)
  /\ UNCHANGED <<cliVars, thrVars>>
StopS ==
  /\ \E a \in StopInputs : stop_session(a.outcome, a.files, "ok", "ok")
  /\ UNCHANGED <<cliVars, thrVars>>
CancelS ==
  /\ cancel_session("ok", "ok")
  /\ UNCHANGED <<cliVars, thrVars>>
ExtendS ==
  /\ \E m \in ExtendInputsFine : extend_session(m, "ok")
  /\ UNCHANGED <<cliVars, thrVars>>
PauseS ==
  /\ \E m \in PauseInputs : pause_session(m, "ok", MaxPaused)
  /\ UNCHANGED <<cliVars, thrVars>>
TickS ==
  /\ update_tick
  /\ UNCHANGED <<cliVars, thrVars>>
AdvanceS ==
  /\ \E dt \in DtsFine : time_passes(dt, MaxClockFine)
  /\ UNCHANGED <<cliVars, thrVars>>

NextSession ==
  \/ StartS
  \/ StopS
  \/ CancelS
  \/ ExtendS
  \/ PauseS
  \/ TickS
  \/ AdvanceS

SpecSession == Init /\ [][NextSession]_vars

(***************************************************************************)
(* SpecClock: a session on a system clock that the user or a time service  *)
(* may set back                                                            *)
(***************************************************************************)
StartC ==
  /\ \E a \in StartInputsFine, tm \in TargetInputsFine :
       start_session(a.task, a.dir, tm, "ok", "ok", "ok", MaxSessionsFine)
  /\ UNCHANGED <<cliVars, thrVars>>
StopC ==
  /\ \E a \in StopInputs : stop_session(a.outcome, a.files, "ok", "ok")
  /\ UNCHANGED <<cliVars, thrVars>>
TickC ==
  /\ update_tick
  /\ UNCHANGED <<cliVars, thrVars>>
AdvanceC ==
  /\ \E dt \in DtsFine : time_passes(dt, MaxClockFine)
  /\ UNCHANGED <<cliVars, thrVars>>
AdjustClock ==
  /\ \E d \in Rollbacks : clock_set_back(d)
  /\ UNCHANGED <<cliVars, thrVars>>

NextClock ==
  \/ StartC
  \/ StopC
  \/ TickC
  \/ AdvanceC
  \/ AdjustClock

SpecClock == Init /\ [][NextClock]_vars

(***************************************************************************)
(* One store operation in isolation (db.execute / db.fetch_one through     *)
(* get_connection), its attempt events drawn from EventSeqs                *)
(***************************************************************************)
InitStore ==
  /\ InitEngine
  /\ NoCli
  /\ NoThreads
  /\ dbEvents \in EventSeqs
  /\ dbCall = NoCall

db_operation ==
  /\ dbCall = NoCall
  /\ dbCall' = get_connection(dbEvents)
  /\ UNCHANGED <<clock, up, storeVars, engineVars, lastOp, lastResult, histVars, dbEvents,
                 cliVars, thrVars>>

next_operation ==
  /\ dbCall # NoCall
  /\ dbEvents' \in EventSeqs
  /\ dbCall' = NoCall
  /\ UNCHANGED <<clock, up, storeVars, engineVars, lastOp, lastResult, histVars, cliVars, thrVars>>

NextStore == db_operation \/ next_operation

SpecStore == InitStore /\ [][NextStore]_vars

(***************************************************************************)
(* The idle check of the interactive front end: Config.is_work_hours,      *)
(* SessionManager.get_last_session_time, PomodoroCLI.check_idle_warning    *)
(***************************************************************************)
SecondsPerDay == 24 * 60 * SecondsPerMinute
HHMM(h, m) == (h * 60 + m) * SecondsPerMinute

\* Config: WORK_START, WORK_END, LUNCH_START, LUNCH_END defaults
work_start == HHMM(9, 0)
work_end == HHMM(17, 0)
lunch_start == HHMM(12, 0)
lunch_end == HHMM(13, 0)

\* datetime.time() of a datetime
time_of_day(t) == t % SecondsPerDay

is_work_hours_ignoring_lunch(check_time) ==
  ~(check_time < work_start \/ check_time >= work_end)

is_work_hours(check_time) ==
  IF check_time < work_start \/ check_time >= work_end
  THEN FALSE
  ELSE IF lunch_start <= check_time /\ check_time < lunch_end
  THEN FALSE
  ELSE TRUE

RECURSIVE SetMax(_)
SetMax(S) == LET x == CHOOSE x \in S : TRUE
             IN IF S = {x} THEN x
                ELSE LET m == SetMax(S \ {x}) IN IF x > m THEN x ELSE m

\* SELECT end_time FROM sessions WHERE status = 'completed' AND end_time IS NOT NULL
\* ORDER BY end_time DESC LIMIT 1
get_last_session_time(rows) ==
  LET ends == {rows[i].end_time[1] :
                 i \in {j \in DOMAIN rows : rows[j].status = "completed"
                                            /\ rows[j].end_time # Null}}
  IN IF ends = {} THEN Null ELSE Some(SetMax(ends))

\* the prompt "Start a session?" answered by choice; 'y' runs cmd_start,
\* 's' moves the next check 30 minutes on
answer_prompt(choice, a, now, limit) ==
  IF choice = "y"
  THEN /\ start_session(a.task, a.dir, 0, "ok", "ok", "ok", limit)
       /\ last_idle_check' = Some(now)
  ELSE /\ last_idle_check' =
            IF choice = "s" THEN Some(now + snooze_minutes * SecondsPerMinute)
            ELSE Some(now)
       /\ UNCHANGED <<clock, up, storeVars, engineVars, lastOp, lastResult, histVars, dbVars>>

too_soon_never(now) == FALSE

\* if (now - self.last_idle_check).total_seconds() < 60
too_soon(now) == now - last_idle_check[1] < idle_check_interval_seconds

first_run_due_always == TRUE

\* if not self.shown_startup_prompt
first_run_due == ~shown_startup_prompt

\* r is the result of the store call of get_last_session_time
check_idle_warning(choice, a, r, limit) ==
  LET now == datetime_now
      quiet == UNCHANGED <<clock, up, storeVars, engineVars, lastOp, lastResult,
                           histVars, dbVars>>
  IN
  IF ~is_work_hours(time_of_day(now))
  THEN /\ idle_prompt' = [kind |-> "outside_work_hours", minutes |-> Null]
       /\ quiet
       /\ UNCHANGED <<last_idle_check, shown_startup_prompt>>
  ELSE IF too_soon(now)
  THEN /\ idle_prompt' = [kind |-> "too_soon", minutes |-> Null]
       /\ quiet
       /\ UNCHANGED <<last_idle_check, shown_startup_prompt>>
  ELSE IF r # "ok"
  THEN \* get_last_session_time raised
       /\ idle_prompt' = [kind |-> r, minutes |-> Null]
       /\ last_idle_check' = Some(now)
       /\ quiet
       /\ UNCHANGED shown_startup_prompt
  ELSE LET last_session == get_last_session_time(sessions) IN
       IF last_session = Null
       THEN IF first_run_due
            THEN /\ shown_startup_prompt' = TRUE
                 /\ idle_prompt' = [kind |-> "first_run", minutes |-> Null]
                 /\ answer_prompt(choice, a, now, limit)
            ELSE /\ idle_prompt' = [kind |-> "no_session", minutes |-> Null]
                 /\ last_idle_check' = Some(now)
                 /\ quiet
                 /\ UNCHANGED shown_startup_prompt
       ELSE LET idle_minutes == IntTrunc(now - last_session[1], SecondsPerMinute) IN
            IF idle_minutes >= idle_warning_minutes
            THEN /\ idle_prompt' = [kind |-> "idle", minutes |-> Some(idle_minutes)]
                 /\ answer_prompt(choice, a, now, limit)
                 /\ UNCHANGED shown_startup_prompt
            ELSE /\ idle_prompt' = [kind |-> "not_idle", minutes |-> Some(idle_minutes)]
                 /\ last_idle_check' = Some(now)
                 /\ quiet
                 /\ UNCHANGED shown_startup_prompt

\* interactive_mode: the check runs only while the engine has no session
interactive_idle_check(choice, a, r, limit) ==
  /\ up
  /\ ~is_active
  /\ check_idle_warning(choice, a, r, limit)
  /\ UNCHANGED <<last_long_session_check, live>>

(***************************************************************************)
(* SpecIdle: the interactive front end around lunch time; store calls      *)
(* succeed                                                                 *)
(***************************************************************************)
IdleClockStart == HHMM(11, 20)
DtsIdle == {20 * SecondsPerMinute, 35 * SecondsPerMinute, 60 * SecondsPerMinute}

\* PomodoroCLI.__init__
InitCli ==
  /\ last_idle_check = Some(datetime_now)
  /\ shown_startup_prompt = FALSE
  /\ idle_prompt = NoCheck
  /\ last_long_session_check = Some(datetime_now)
  /\ live = At("command")

InitIdle ==
  /\ clock = IdleClockStart
  /\ up = TRUE
  /\ sessions = <<>>
  /\ tasks = [t \in TaskIds |-> Null]
  /\ current_session = Null
  /\ file_tracker = Null
  /\ last_tick = Null
  /\ session_start_realtime = Null
  /\ lastOp = "restart"
  /\ lastResult = "ok"
  /\ targetLog = <<>>
  /\ InitCli
  /\ NoThreads
  /\ dbEvents = <<>>
  /\ dbCall = NoCall

StartI ==
  /\ \E a \in StartInputsFine :
       start_session(a.task, a.dir, 0, "ok", "ok", "ok", MaxSessionsIdle)
  /\ UNCHANGED <<cliVars, thrVars>>
StopI ==
  /\ \E a \in StopInputs : stop_session(a.outcome, a.files, "ok", "ok")
  /\ UNCHANGED <<cliVars, thrVars>>
CancelI ==
  /\ cancel_session("ok", "ok")
  /\ UNCHANGED <<cliVars, thrVars>>
AdvanceI ==
  /\ \E dt \in DtsIdle : time_passes(dt, MaxClockIdle)
  /\ UNCHANGED <<cliVars, thrVars>>
IdleCheck ==
  /\ \E choice \in PromptChoices, a \in StartInputsFine :
       interactive_idle_check(choice, a, "ok", MaxSessionsIdle)
  /\ UNCHANGED thrVars

NextIdle ==
  \/ StartI
  \/ StopI
  \/ CancelI
  \/ AdvanceI
  \/ IdleCheck

SpecIdle == InitIdle /\ [][NextIdle]_vars

(***************************************************************************)
(* SpecSnooze: the idle check on a clock of seconds.  The process starts   *)
(* at 09:30 on a store that holds one session completed at 08:55 by an     *)
(* earlier process.                                                        *)
(***************************************************************************)
SnoozeClockStart == HHMM(9, 30)
DtsSnooze == {59, idle_check_interval_seconds, snooze_minutes * SecondsPerMinute}

EarlierSession ==
  [id |-> 1,
   task_id |-> Null,
   start_time |-> HHMM(8, 30),
   end_time |-> Some(HHMM(8, 55)),
   duration_minutes |-> Some(25),
   target_minutes |-> default_pomodoro_minutes,
   outcome |-> Null,
   files_modified |-> Null,
   paused_duration |-> 0,
   status |-> "completed"]

InitSnooze ==
  /\ clock = SnoozeClockStart
  /\ up = TRUE
  /\ sessions = <<EarlierSession>>
  /\ tasks = [t \in TaskIds |-> Null]
  /\ current_session = Null
  /\ file_tracker = Null
  /\ last_tick = Null
  /\ session_start_realtime = Null
  /\ lastOp = "restart"
  /\ lastResult = "ok"
  /\ targetLog = <<>>
  /\ InitCli
  /\ NoThreads
  /\ dbEvents = <<>>
  /\ dbCall = NoCall

AdvanceZ ==
  /\ \E dt \in DtsSnooze : time_passes(dt, MaxClockSnooze)
  /\ UNCHANGED <<cliVars, thrVars>>
\* the prompts are answered no or snooze
IdleCheckZ ==
  /\ \E choice \in PromptChoices \ {"y"}, a \in StartInputsFine :
       interactive_idle_check(choice, a, "ok", MaxSessionsSnooze)
  /\ UNCHANGED thrVars

NextSnooze ==
  \/ AdvanceZ
  \/ IdleCheckZ

SpecSnooze == InitSnooze /\ [][NextSnooze]_vars

(***************************************************************************)
(* The live display of the interactive front end:                          *)
(* PomodoroCLI.live_session_display.  live.pc is the position:             *)
(*   "command"          interactive_mode waits for a command               *)
(*   "loop"             top of the while loop                              *)
(*   "gap_prompt"       "Still working?"                                   *)
(*   "tick"             before update_tick                                 *)
(*   "complete_prompt"  done / continue / switch / break                   *)
(*   "long_prompt"      "Continue session?"                                *)
(*   "sleep"            time.sleep(1)                                      *)
(*   "switch"           cmd_stop done, cmd_start next                      *)
(* A store error leaves the display through interactive_mode's handler,    *)
(* which re-enters it while a session is current.                          *)
(***************************************************************************)
LivePrompts == {"gap_prompt", "complete_prompt", "long_prompt"}
\* where the live display spends its time
InterruptPositions == {"sleep"} \cup LivePrompts

\* where interactive_mode continues once the engine call has returned or raised
Resume(active) == IF active THEN At("loop") ELSE At("command")

\* if gap and gap > config.sleep_gap_threshold_minutes
gap_prompt_due(gap) ==
  gap # Null /\ gap[1] # 0 /\ gap[1] > sleep_gap_threshold_minutes

\* if elapsed > 0 and elapsed % 120 == 0: if (now - last_long_session_check) > 300 s
long_session_due(elapsed) ==
  /\ elapsed > 0
  /\ elapsed % long_session_minutes = 0
  /\ datetime_now - last_long_session_check[1] > long_session_recheck_seconds

long_session_check(elapsed) ==
  IF long_session_due(elapsed)
  THEN /\ live' = At("long_prompt")
       /\ last_long_session_check' = Some(datetime_now)
  ELSE /\ live' = At("sleep")
       /\ UNCHANGED last_long_session_check

idleVars == <<last_idle_check, shown_startup_prompt, idle_prompt>>

loop_top_autostop ==
  /\ up
  /\ live.pc = "loop"
  /\ IF is_active /\ gap_prompt_due(check_for_sleep_gap)
     THEN /\ stop_session(Null, Null, "ok", "ok")
          /\ live' = At("command")
     ELSE /\ live' = IF is_active THEN At("tick") ELSE At("command")
          /\ UNCHANGED <<clock, up, storeVars, engineVars, lastOp, lastResult, histVars,
                         dbVars>>
  /\ UNCHANGED <<idleVars, last_long_session_check>>

\* while session_manager.current_session: gap = check_for_sleep_gap() ...
loop_top ==
  /\ up
  /\ live.pc = "loop"
  /\ IF ~is_active
     THEN live' = At("command")
     ELSE LET gap == check_for_sleep_gap IN
          IF gap_prompt_due(gap)
          THEN live' = [At("gap_prompt") EXCEPT !.gap = gap[1]]
          ELSE live' = At("tick")
  /\ UNCHANGED <<clock, up, storeVars, engineVars, lastOp, lastResult, histVars, dbVars,
                 idleVars, last_long_session_check>>

\* Confirm.ask("Still working? (No = stop session)")
gap_answer(still_working, a, r1, r2, limit) ==
  /\ up
  /\ live.pc = "gap_prompt"
  /\ IF still_working
     THEN /\ pause_session(live.gap, r1, limit)
          /\ live' = IF r1 = "ok" THEN At("tick") ELSE Resume(is_active')
     ELSE /\ stop_session(a.outcome, a.files, r1, r2)
          /\ live' = Resume(is_active')
  /\ UNCHANGED <<idleVars, last_long_session_check>>

\* update_tick, the metrics, the completion test and the long-session test
loop_tick ==
  /\ live.pc = "tick"
  /\ update_tick
  /\ LET elapsed == get_elapsed_minutes IN
       IF is_overtime /\ elapsed = current_session[1].target_minutes
       THEN /\ live' = [At("complete_prompt") EXCEPT !.elapsed = elapsed]
            /\ UNCHANGED last_long_session_check
       ELSE long_session_check(elapsed)
  /\ UNCHANGED idleVars

\* Prompt.ask("Select", choices=['d', 'c', 's', 'b'])
complete_answer(choice, a, r1, r2) ==
  /\ up
  /\ live.pc = "complete_prompt"
  /\ IF choice = "c"
     THEN /\ extend_session(continue_minutes, r1)
          /\ IF r1 = "ok"
             THEN long_session_check(live.elapsed)
             ELSE /\ live' = Resume(is_active')
                  /\ UNCHANGED last_long_session_check
     ELSE /\ stop_session(a.outcome, a.files, r1, r2)
          /\ live' = IF is_active' THEN At("loop")
                     ELSE IF choice = "s" THEN At("switch") ELSE At("command")
          /\ UNCHANGED last_long_session_check
  /\ UNCHANGED idleVars

\* Confirm.ask("Continue session?")
long_answer(continue, a, r1, r2) ==
  /\ up
  /\ live.pc = "long_prompt"
  /\ IF continue
     THEN /\ live' = At("sleep")
          /\ UNCHANGED <<clock, up, storeVars, engineVars, lastOp, lastResult, histVars,
                         dbVars>>
     ELSE /\ stop_session(a.outcome, a.files, r1, r2)
          /\ live' = Resume(is_active')
  /\ UNCHANGED <<idleVars, last_long_session_check>>

\* time.sleep(1), or the machine suspended meanwhile
loop_sleep(dt, limit) ==
  /\ live.pc = "sleep"
  /\ time_passes(dt, limit)
  /\ live' = At("loop")
  /\ UNCHANGED <<idleVars, last_long_session_check>>

\* time spent at a prompt
prompt_wait(dt, limit) ==
  /\ live.pc \in LivePrompts
  /\ time_passes(dt, limit)
  /\ UNCHANGED cliVars

\* except KeyboardInterrupt: the session menu, the interrupt arriving at one
\* of the given positions of the loop
interrupt_at(positions, choice, a, r1, r2) ==
  /\ up
  /\ live.pc \in positions
  /\ IF choice = "s"
     THEN /\ stop_session(a.outcome, a.files, r1, r2)
          /\ live' = Resume(is_active')
     ELSE /\ live' = At("loop")
          /\ UNCHANGED <<clock, up, storeVars, engineVars, lastOp, lastResult, histVars,
                         dbVars>>
  /\ UNCHANGED <<idleVars, last_long_session_check>>

interrupt_menu(choice, a, r1, r2) == interrupt_at(InterruptPositions, choice, a, r1, r2)

\* the command start, or cmd_start after cmd_stop in the choice 's'
start_command(a, r1, r2, r3, limit) ==
  /\ live.pc \in {"command", "switch"}
  /\ start_session(a.task, a.dir, 0, r1, r2, r3, limit)
  /\ live' = Resume(is_active')
  /\ UNCHANGED <<idleVars, last_long_session_check>>

(***************************************************************************)
(* SpecLoop: one interactive process and its live display                  *)
(***************************************************************************)
DtsLoop == {5 * SecondsPerMinute, 95 * SecondsPerMinute}
DtsPrompt == {5 * SecondsPerMinute}

StartCommand ==
  /\ \E a \in StartInputsFine : start_command(a, "ok", "ok", "ok", MaxSessionsLoop)
  /\ UNCHANGED thrVars
LoopTop ==
  /\ loop_top
  /\ UNCHANGED thrVars
GapAnswer ==
  /\ \E still_working \in BOOLEAN, a \in StopInputs :
       gap_answer(still_working, a, "ok", "ok", MaxPausedLoop)
  /\ UNCHANGED thrVars
LoopTick ==
  /\ loop_tick
  /\ UNCHANGED thrVars
CompleteAnswer ==
  /\ \E choice \in CompleteChoices, a \in StopInputs : complete_answer(choice, a, "ok", "ok")
  /\ UNCHANGED thrVars
LongAnswer ==
  /\ \E continue \in BOOLEAN, a \in StopInputs : long_answer(continue, a, "ok", "ok")
  /\ UNCHANGED thrVars
LoopSleep ==
  /\ \E dt \in DtsLoop : loop_sleep(dt, MaxClockLoop)
  /\ UNCHANGED thrVars
PromptWait ==
  /\ \E dt \in DtsPrompt : prompt_wait(dt, MaxClockLoop)
  /\ UNCHANGED thrVars
Interrupt ==
  /\ \E choice \in MenuChoices, a \in StopInputs : interrupt_menu(choice, a, "ok", "ok")
  /\ UNCHANGED thrVars

NextLoop ==
  \/ StartCommand
  \/ LoopTop
  \/ GapAnswer
  \/ LoopTick
  \/ CompleteAnswer
  \/ LongAnswer
  \/ LoopSleep
  \/ PromptWait
  \/ Interrupt

SpecLoop == InitIdle /\ [][NextLoop]_vars

(***************************************************************************)
(* SpecGap: the live display over short suspensions of five and a half and *)
(* of six minutes, with interrupts arriving also between the gap handling  *)
(* and update_tick                                                         *)
(***************************************************************************)
DtsGap == {330, 6 * SecondsPerMinute}
GapInterruptPositions == InterruptPositions \cup {"tick"}

StartG ==
  /\ \E a \in StartInputsFine : start_command(a, "ok", "ok", "ok", MaxSessionsGap)
  /\ UNCHANGED thrVars
GapAnswerG ==
  /\ \E still_working \in BOOLEAN, a \in StopInputs :
       gap_answer(still_working, a, "ok", "ok", MaxPausedGap)
  /\ UNCHANGED thrVars
LoopSleepG ==
  /\ \E dt \in DtsGap : loop_sleep(dt, MaxClockGap)
  /\ UNCHANGED thrVars
InterruptG ==
  /\ \E choice \in MenuChoices, a \in StopInputs :
       interrupt_at(GapInterruptPositions, choice, a, "ok", "ok")
  /\ UNCHANGED thrVars

NextGap ==
  \/ StartG
  \/ LoopTop
  \/ GapAnswerG
  \/ LoopTick
  \/ LoopSleepG
  \/ InterruptG

SpecGap == InitIdle /\ [][NextGap]_vars

(***************************************************************************)
(* Threads: IdleMonitor (system_monitor.py) runs its callback on a         *)
(* background thread while the main thread uses the same SessionManager.   *)
(* The callback is a start of a session, the operation the main loop       *)
(* would invoke.  start_session is taken statement by statement: the       *)
(* interpreter may switch threads between its statements, and each store   *)
(* call releases the interpreter lock.                                     *)
(***************************************************************************)
\* where a thread continues after start_session returned or raised
Returned(c) == IF c = MainThread THEN "ready" ELSE "sleep"

\* where a thread enters start_session
Entering(c) ==
  IF c = MainThread
  THEN calls[c].pc = "ready" /\ ~monitor.joining
  ELSE calls[c].pc = "callback"

threadFrame == <<clock, up, tasks, dbVars, cliVars>>

\* if self.current_session: raise ValueError("A session is already active. ...")
start_check(c) ==
  /\ up
  /\ Entering(c)
  /\ IF current_session # Null
     THEN /\ calls' = [calls EXCEPT ![c] = [pc |-> Returned(c), id |-> 0,
                                            result |-> "AlreadyActive"]]
          /\ lastOp' = "start"
          /\ lastResult' = "AlreadyActive"
     ELSE /\ calls' = [calls EXCEPT ![c] = [pc |-> "checked", id |-> 0, result |-> "none"]]
          /\ UNCHANGED <<lastOp, lastResult>>
  /\ UNCHANGED <<storeVars, engineVars, histVars, monitor, threadFrame>>

\* cursor = db.execute("INSERT INTO sessions ...")
start_insert(c, a) ==
  /\ calls[c].pc = "checked"
  /\ sessions' = Append(sessions, NewRow(a.task, a.dir, 0))
  /\ calls' = [calls EXCEPT ![c] = [pc |-> "inserted", id |-> Len(sessions) + 1,
                                    result |-> "none"]]
  /\ UNCHANGED <<tasks, engineVars, histVars, lastOp, lastResult, monitor, clock, up,
                 dbVars, cliVars>>

\* session_row = db.fetch_one(... WHERE id = cursor.lastrowid);
\* self.current_session = ...; self.last_tick = now; ...; return
start_load(c, a) ==
  /\ calls[c].pc = "inserted"
  /\ current_session' = Some(sessions[calls[c].id])
  /\ last_tick' = Some(datetime_now)
  /\ session_start_realtime' = Some(time_time)
  /\ file_tracker' = a.dir
  /\ targetLog' = <<sessions[calls[c].id].target_minutes>>
  /\ calls' = [calls EXCEPT ![c] = [pc |-> Returned(c), id |-> calls[c].id,
                                    result |-> "ok"]]
  /\ lastOp' = "start"
  /\ lastResult' = "ok"
  /\ UNCHANGED <<storeVars, monitor, threadFrame>>

MainIdle == calls[MainThread].pc = "ready" /\ ~monitor.joining

\* IdleMonitor.start, called by the main thread
monitor_start ==
  /\ MainIdle
  /\ IF monitor.running
     THEN UNCHANGED <<calls, monitor>>
     ELSE \E i \in MonitorThreads :
            /\ calls[i].pc = "unborn"
            /\ \A j \in MonitorThreads : j < i => calls[j].pc # "unborn"
            /\ monitor' = [monitor EXCEPT !.running = TRUE, !.thread = Some(i)]
            /\ calls' = [calls EXCEPT ![i].pc = "check"]
  /\ UNCHANGED <<storeVars, engineVars, histVars, lastOp, lastResult, threadFrame>>

\* IdleMonitor.stop: self.running = False; if self.thread: enter join(timeout=2)
monitor_stop ==
  /\ MainIdle
  /\ monitor' = [monitor EXCEPT !.running = FALSE, !.joining = (monitor.thread # Null)]
  /\ UNCHANGED <<calls, storeVars, engineVars, histVars, lastOp, lastResult, threadFrame>>

\* self.thread.join(timeout=2) returns: the thread ended, or 2 seconds passed
\* while it was in time.sleep(60) or inside the callback
join_return(timed_out) ==
  /\ monitor.joining
  /\ IF timed_out
     THEN calls[monitor.thread[1]].pc \in {"sleep", "callback", "checked", "inserted"}
     ELSE calls[monitor.thread[1]].pc = "exited"
  /\ monitor' = [monitor EXCEPT !.joining = FALSE]
  /\ UNCHANGED <<calls, storeVars, engineVars, histVars, lastOp, lastResult, threadFrame>>

\* _monitor_loop: `while self.running:` then `if self.idle_callback:` (set by start)
loop_test(i) ==
  /\ calls[i].pc = "check"
  /\ calls' = [calls EXCEPT ![i].pc = IF monitor.running THEN "callback" ELSE "exited"]
  /\ UNCHANGED <<monitor, storeVars, engineVars, histVars, lastOp, lastResult, threadFrame>>

\* time.sleep(self.check_interval), after the callback returned or raised
loop_wake(i) ==
  /\ calls[i].pc = "sleep"
  /\ calls' = [calls EXCEPT ![i].pc = "check"]
  /\ UNCHANGED <<monitor, storeVars, engineVars, histVars, lastOp, lastResult, threadFrame>>

(***************************************************************************)
(* SpecThreads: the main thread, the monitor and its threads               *)
(***************************************************************************)
StartCheck == \E c \in Threads : start_check(c)
StartInsert == \E c \in Threads, a \in StartInputsFine : start_insert(c, a)
StartLoad == \E c \in Threads, a \in StartInputsFine : start_load(c, a)
MonitorStart == monitor_start
MonitorStop == monitor_stop
JoinReturn == \E timed_out \in BOOLEAN : join_return(timed_out)
LoopTest == \E i \in MonitorThreads : loop_test(i)
LoopWake == \E i \in MonitorThreads : loop_wake(i)

NextThreads ==
  \/ StartCheck
  \/ StartInsert
  \/ StartLoad
  \/ MonitorStart
  \/ MonitorStop
  \/ JoinReturn
  \/ LoopTest
  \/ LoopWake

SpecThreads == Init /\ [][NextThreads]_vars

(***************************************************************************)
(* Properties                                                              *)
(***************************************************************************)
Row(i) == sessions[i]
CurrentRow == sessions[current_session[1].id]
AfterRestart == lastOp \in {"restart", "restart_interrupted"}

\* C1: in every reachable state of the store at most one session row has
\* status 'active'.
C1_AtMostOneActiveRow == Cardinality(ActiveRows(sessions)) <= 1

\* C2: start() while the engine holds a current session fails with
\* AlreadyActive and changes neither the store (no row inserted, no
\* last_worked written) nor the engine's current session, last tick, start
\* instant and file tracker.
C2_StartWhileActiveRefused ==
  [][(is_active /\ Start) =>
       /\ lastResult' = "AlreadyActive"
       /\ UNCHANGED <<sessions, tasks, current_session, last_tick,
                      session_start_realtime, file_tracker>>]_vars

C2_Witness ==
  /\ lastOp = "start"
  /\ lastResult = "AlreadyActive"
  /\ is_active
  /\ file_tracker # Null
  /\ tasks[1] # Null

\* C3: while the engine is idle, stop, cancel and extend fail with
\* NoActiveSession and pause returns without error; none of the four changes
\* the store or the engine's runtime state.
C3_IdleOperations ==
  [][(up /\ ~is_active) =>
       /\ (Stop \/ Cancel \/ Extend) =>
            (lastResult' = "NoActiveSession" /\ UNCHANGED <<storeVars, engineVars>>)
       /\ Pause => (lastResult' = "ok" /\ UNCHANGED <<storeVars, engineVars>>)]_vars

C3_Witness ==
  /\ lastOp = "pause"
  /\ lastResult = "ok"
  /\ ~is_active
  /\ Len(sessions) > 0

\* C4: every completed row's duration_minutes is the whole minutes, truncated,
\* of its own end_time minus its own start_time, whatever ticks, extends and
\* pauses happened in between.
C4_DurationIsWallClockDelta ==
  \A i \in DOMAIN sessions :
    Row(i).status = "completed" =>
      /\ Row(i).end_time # Null
      /\ Row(i).duration_minutes =
           Some(IntTrunc(Row(i).end_time[1] - Row(i).start_time, SecondsPerMinute))

C4_Witness ==
  \E i \in DOMAIN sessions :
    /\ Row(i).status = "completed"
    /\ Row(i).end_time = Some(Row(i).start_time + 330)
    /\ Row(i).duration_minutes = Some(5)
    /\ Row(i).paused_duration > 0
    /\ Row(i).target_minutes > default_pomodoro_minutes

\* C5: elapsedMinutes() of one active session never decreases from one step
\* to the next, also when the system clock is set back during the session.
C5_ElapsedNeverDecreases ==
  [][(is_active /\ current_session' = current_session
        /\ session_start_realtime' = session_start_realtime) =>
       get_elapsed_minutes' >= get_elapsed_minutes]_vars

GapSeconds == datetime_now - last_tick[1]
ThresholdSeconds == sleep_gap_threshold_minutes * SecondsPerMinute

\* C6 as stated: checkForGap() returns a value greater than the threshold
\* exactly when the time since the last tick exceeds the threshold, that
\* value being the gap in whole minutes, and 'no gap' otherwise.
C6_GapAboveThresholdIff ==
  (is_active /\ last_tick # Null) =>
     LET g == check_for_sleep_gap IN
     /\ (GapSeconds > ThresholdSeconds) <=>
          (g # Null /\ g[1] > sleep_gap_threshold_minutes)
     /\ g # Null => g[1] = IntTrunc(GapSeconds, SecondsPerMinute)
     /\ ~(GapSeconds > ThresholdSeconds) => g = Null

\* C6 amended: checkForGap() returns a value exactly when the time since the
\* last tick exceeds the threshold; the value is the gap in whole minutes,
\* which is at least the threshold and exceeds it only from threshold + 1
\* whole minutes on; with no session it returns 'no gap'.
C6_GapReportedIff ==
  LET g == check_for_sleep_gap IN
  IF is_active /\ last_tick # Null
  THEN /\ (GapSeconds > ThresholdSeconds) <=> (g # Null)
       /\ g # Null =>
            /\ g[1] = IntTrunc(GapSeconds, SecondsPerMinute)
            /\ g[1] >= sleep_gap_threshold_minutes
            /\ (g[1] > sleep_gap_threshold_minutes) <=>
                 (GapSeconds >= ThresholdSeconds + SecondsPerMinute)
  ELSE g = Null

C6_Witness ==
  /\ is_active
  /\ last_tick # Null
  /\ GapSeconds = 360
  /\ check_for_sleep_gap = Some(6)

\* C7: each successful extend(m) adds m to target_minutes: the in-memory and
\* the persisted target of the current session both equal its first target
\* plus every amount extended so far (25, extend 10, extend 5 gives 40).
C7_ExtendAdds ==
  is_active =>
    /\ targetLog # <<>>
    /\ current_session[1].target_minutes = SumSeq(targetLog)
    /\ CurrentRow.target_minutes = SumSeq(targetLog)

C7_Witness ==
  /\ is_active
  /\ targetLog = <<25, 10, 5>>
  /\ current_session[1].target_minutes = 40
  /\ CurrentRow.target_minutes = 40

\* C8: a process start that finds rows left 'active' turns exactly those rows
\* into 'cancelled' with end_time set and every other column, the null
\* duration_minutes included, as it was, and changes no other row; no store
\* write of the new process precedes the sweep; the start() that follows is
\* not refused and, if its store calls succeed, creates the one active row.
C8_StartupSweep ==
  [][/\ (ProcessStart /\ up') =>
          /\ Len(sessions') = Len(sessions)
          /\ \A i \in DOMAIN sessions :
               IF Row(i).status = "active"
               THEN /\ sessions'[i].status = "cancelled"
                    /\ sessions'[i].end_time # Null
                    /\ sessions'[i].duration_minutes = Null
                    /\ [sessions'[i] EXCEPT !.status = "active", !.end_time = Null] = Row(i)
               ELSE sessions'[i] = Row(i)
          /\ ~is_active'
     /\ (~up /\ ~ProcessStart) => UNCHANGED storeVars
     /\ (AfterRestart /\ up /\ Start) =>
          /\ lastResult' # "AlreadyActive"
          /\ lastResult' = "ok" =>
               /\ is_active'
               /\ ActiveRows(sessions') = {Len(sessions) + 1}]_vars

C8_Witness ==
  /\ lastOp = "restart_interrupted"
  /\ up
  /\ ~is_active
  /\ Len(sessions) = 2
  /\ Row(1).status = "completed"
  /\ Row(2).status = "cancelled"
  /\ Row(2).end_time # Null
  /\ Row(2).duration_minutes = Null

LockedUpTo(n) == \A k \in 1..n : dbEvents[k] = "connect_locked"

C10_ExhaustionRaisesStoreLocked ==
  (dbCall # NoCall /\ LockedUpTo(max_retries)) => dbCall.result = "StoreLocked"

StaysLocked == \A k \in 1..MaxEvents : IsLocked(dbEvents[k])

\* C11: every store operation ends, with a result or an error, after at most
\* 3 attempts, having slept 100 ms after the first locked failure and 200 ms
\* after the second and at no other time; when the store stays locked the
\* operation ends with an error, on the third attempt if each connection
\* attempt found it locked.
C11_BoundedRetry ==
  dbCall # NoCall =>
    /\ dbCall.result \in {"ok", "LockedError", "OtherError", "RuntimeError", "StoreLocked"}
    /\ dbCall.attempts \in 1..3
    /\ dbCall.slept = SubSeq(<<100, 200>>, 1, dbCall.attempts - 1)
    /\ StaysLocked => (dbCall.result # "ok" /\ ~dbCall.applied)
    /\ LockedUpTo(max_retries) => dbCall.attempts = max_retries

C11_Witness ==
  /\ dbCall # NoCall
  /\ LockedUpTo(MaxEvents)
  /\ dbCall.attempts = 3
  /\ dbCall.slept = <<100, 200>>
  /\ dbCall.result = "LockedError"

\* the statement of attempt k runs: no earlier attempt got as far as the yield
BodyRuns(k) == \A j \in 1..(k - 1) : dbEvents[j] \in {"connect_locked", "connect_error"}

\* C12: a failure that is not 'locked' is raised on the attempt where it
\* occurs: that attempt is the last one, no sleep follows it and the
\* statement is not applied.
C12_OtherErrorImmediate ==
  \A k \in 1..max_retries :
    (/\ dbCall # NoCall
     /\ dbCall.attempts >= k
     /\ \/ dbEvents[k] = "connect_error"
        \/ dbEvents[k] = "body_error" /\ BodyRuns(k)) =>
      /\ dbCall.result = "OtherError"
      /\ dbCall.attempts = k
      /\ Len(dbCall.slept) = k - 1
      /\ ~dbCall.applied

C12_Witness ==
  /\ dbCall # NoCall
  /\ dbEvents[1] = "connect_locked"
  /\ dbEvents[2] = "body_error"
  /\ dbCall.result = "OtherError"
  /\ dbCall.attempts = 2
  /\ dbCall.slept = <<100>>

\* C13: in every reachable state every persisted session row has status
\* 'active' exactly when its end_time is null and status 'completed' exactly
\* when its duration_minutes is not null.
C13_StatusFieldsAgree ==
  \A i \in DOMAIN sessions :
    /\ (Row(i).status = "active") <=> (Row(i).end_time = Null)
    /\ (Row(i).status = "completed") <=> (Row(i).duration_minutes # Null)

\* C14: once a row has left status 'active' (completed or cancelled, the
\* startup sweep included) no later step changes its end_time, status,
\* duration_minutes or any other field, and the row stays in the table.
C14_EndedRowImmutable ==
  [][\A i \in DOMAIN sessions :
       Row(i).status # "active" =>
         /\ i \in DOMAIN sessions'
         /\ sessions'[i] = Row(i)]_vars

CompletedEnds ==
  {Row(i).end_time[1] : i \in {j \in DOMAIN sessions : Row(j).status = "completed"}}
LastCompletedEnd == CHOOSE e \in CompletedEnds : \A f \in CompletedEnds : f <= e
IdleMinutes == (clock - LastCompletedEnd) \div SecondsPerMinute
InWorkHours ==
  LET t == clock % SecondsPerDay
  IN /\ HHMM(9, 0) <= t
     /\ t < HHMM(17, 0)
     /\ ~(HHMM(12, 0) <= t /\ t < HHMM(13, 0))
IdleConditions ==
  /\ ~is_active
  /\ InWorkHours
  /\ CompletedEnds # {}
  /\ IdleMinutes >= 30
CheckEligible == clock - last_idle_check[1] >= 60
IdleSignalled == idle_prompt.kind = "idle"

\* C15 as stated: an idle check signals an idle prompt exactly when no session
\* is active, now is within work hours (lunch excluded) and the whole minutes
\* since the most recently completed session's end are at least 30.
C15_IdleSignalIffConditions ==
  [][IdleCheck => (IdleSignalled' <=> IdleConditions)]_vars

\* C15 amended: an idle check made at least 60 seconds after the front end's
\* next-eligible instant signals an idle prompt exactly when no session is
\* active, now is within work hours (lunch excluded) and the whole minutes
\* since the most recently completed session's end are at least 30, and it
\* reports those minutes; an earlier check never signals.  With the last
\* completed session ended at 11:40, a check at 12:15 gives no signal and an
\* eligible check at 13:15 signals 95 idle minutes.
C15_IdleSignalIffEligible ==
  [][IdleCheck =>
       /\ IdleSignalled' <=> (CheckEligible /\ IdleConditions)
       /\ IdleSignalled' => idle_prompt'.minutes = Some(IdleMinutes)
       /\ (CompletedEnds # {} /\ LastCompletedEnd = HHMM(11, 40)) =>
            /\ clock = HHMM(12, 15) => ~IdleSignalled'
            /\ (clock = HHMM(13, 15) /\ CheckEligible) =>
                 idle_prompt' = [kind |-> "idle", minutes |-> Some(95)]]_vars

C15_Witness ==
  /\ clock = HHMM(13, 15)
  /\ ~is_active
  /\ Len(sessions) = 1
  /\ Row(1).status = "completed"
  /\ Row(1).end_time = Some(HHMM(11, 40))
  /\ idle_prompt = [kind |-> "idle", minutes |-> Some(95)]

\* C16: a successful cancel() sets the current session's end_time to now and
\* its status to 'cancelled' and changes no other column (outcome,
\* files_modified, target_minutes and paused_duration stay, and
\* duration_minutes stays null as it is for every active row), changes no
\* other row, and clears the engine's runtime state.
C16_CancelEffect ==
  [][(is_active /\ Cancel /\ lastResult' = "ok") =>
       LET id == current_session[1].id IN
       /\ sessions'[id].end_time = Some(clock)
       /\ sessions'[id].status = "cancelled"
       /\ Row(id).status = "active" => sessions'[id].duration_minutes = Null
       /\ \A f \in {"id", "task_id", "start_time", "duration_minutes", "target_minutes",
                    "outcome", "files_modified", "paused_duration"} :
            sessions'[id][f] = Row(id)[f]
       /\ Len(sessions') = Len(sessions)
       /\ \A i \in DOMAIN sessions : i # id => sessions'[i] = Row(i)
       /\ current_session' = Null
       /\ file_tracker' = Null
       /\ last_tick' = Null
       /\ session_start_realtime' = Null]_vars

C16_Witness ==
  /\ lastOp = "cancel"
  /\ lastResult = "ok"
  /\ ~is_active
  /\ file_tracker = Null
  /\ \E i \in DOMAIN sessions :
       /\ Row(i).status = "cancelled"
       /\ Row(i).end_time = Some(clock)
       /\ Row(i).start_time < clock
       /\ Row(i).duration_minutes = Null
       /\ Row(i).outcome = Null
       /\ Row(i).paused_duration > 0
       /\ Row(i).target_minutes > default_pomodoro_minutes

\* C17: for an active session remainingMinutes() is target_minutes minus
\* elapsedMinutes() when that is positive and 0 otherwise, never negative, and
\* isOvertime() is true exactly when elapsedMinutes() >= target_minutes, that
\* is exactly when remainingMinutes() is 0.
C17_RemainingAndOvertime ==
  is_active =>
    LET e == get_elapsed_minutes
        t == current_session[1].target_minutes
    IN /\ get_remaining_minutes = (IF t - e > 0 THEN t - e ELSE 0)
       /\ get_remaining_minutes >= 0
       /\ is_overtime <=> (e >= t)
       /\ is_overtime <=> (get_remaining_minutes = 0)

C17_Witness ==
  /\ is_active
  /\ get_elapsed_minutes > current_session[1].target_minutes
  /\ get_remaining_minutes = 0
  /\ is_overtime

SameSession ==
  /\ is_active
  /\ is_active'
  /\ current_session'[1].id = current_session[1].id

\* C18: while a session is active its paused_duration, in memory and in its
\* row, never gets lower from one step to the next, whatever the step (the
\* pauses of the live display, ticks, extends, prompts, time passing).
C18_PausedNeverDecreases ==
  [][SameSession =>
       /\ current_session'[1].paused_duration >= current_session[1].paused_duration
       /\ sessions'[current_session[1].id].paused_duration >= CurrentRow.paused_duration]_vars

C18_Witness ==
  /\ is_active
  /\ lastOp = "pause"
  /\ lastResult = "ok"
  /\ current_session[1].paused_duration = 105
  /\ CurrentRow.paused_duration = 105

ExtendDone == Extend /\ lastResult' = "ok" /\ is_active
TargetOf(row) == row.target_minutes
ButTarget(row, t) == [row EXCEPT !.target_minutes = t]

\* C19: once a session exists its target_minutes, in its row and in memory, is
\* changed by a successful extend only (not by tick, pause, stop, cancel, a
\* process start or time passing), and extend changes nothing but
\* target_minutes: every other column of every row, the in-memory session's
\* other fields, last tick, the elapsed-time start instant, the file tracker
\* and the clock are as before.
C19_TargetOnlyByExtend ==
  [][/\ \A i \in DOMAIN sessions :
          TargetOf(sessions'[i]) # TargetOf(Row(i)) => ExtendDone
     /\ (SameSession /\ TargetOf(current_session'[1]) # TargetOf(current_session[1])) =>
          ExtendDone
     /\ Extend =>
          /\ DOMAIN sessions' = DOMAIN sessions
          /\ \A i \in DOMAIN sessions : ButTarget(sessions'[i], TargetOf(Row(i))) = Row(i)
          /\ is_active' = is_active
          /\ is_active =>
               ButTarget(current_session'[1], TargetOf(current_session[1])) = current_session[1]
          /\ UNCHANGED <<last_tick, session_start_realtime, file_tracker, tasks, clock>>]_vars

C19_Witness ==
  /\ lastOp = "extend"
  /\ lastResult = "ok"
  /\ is_active
  /\ current_session[1].target_minutes = default_pomodoro_minutes + 5
  /\ CurrentRow.target_minutes = default_pomodoro_minutes + 5
  /\ CurrentRow.paused_duration > 0
  /\ last_tick # Null
  /\ last_tick[1] < clock
  /\ CurrentRow.start_time < clock

\* the steps in which the user chooses to end the session
UserStop ==
  \/ \E a \in StopInputs : gap_answer(FALSE, a, "ok", "ok", MaxPausedLoop)
  \/ \E choice \in {"d", "s", "b"}, a \in StopInputs : complete_answer(choice, a, "ok", "ok")
  \/ \E a \in StopInputs : long_answer(FALSE, a, "ok", "ok")
  \/ \E a \in StopInputs : interrupt_menu("s", a, "ok", "ok")

\* C20: in a running process a session row leaves status 'active', and the
\* engine drops its current session, only in a step where the user chose to
\* stop (declining "Still working?", done / switch / break at the completion
\* prompt, declining "Continue session?", stop in the interrupt menu); the
\* loop's own steps (gap check, tick with the target reached or passed, the
\* long-session test, sleeping, waiting at a prompt) leave it active.
C20_EndsOnlyByUser ==
  [][/\ \A i \in DOMAIN sessions :
          (Row(i).status = "active" /\ sessions'[i].status # "active") => UserStop
     /\ (is_active /\ ~is_active') => UserStop
     /\ (LoopTop \/ LoopTick \/ LoopSleep \/ PromptWait) =>
          (is_active' = is_active /\ sessions' = sessions)]_vars

C20_Witness ==
  /\ is_active
  /\ CurrentRow.status = "active"
  /\ live.pc = "long_prompt"
  /\ get_elapsed_minutes = long_session_minutes
  /\ is_overtime
  /\ CurrentRow.paused_duration >= 95

\* C21: when the monitor callback and the main loop call start() at the same
\* time on an idle engine the calls are serialized: no two threads both get a
\* successful start, and the store never holds more than one active row.
C21_ConcurrentStartsSerialized ==
  /\ Cardinality(ActiveRows(sessions)) <= 1
  /\ \A c, d \in Threads :
       (c # d /\ calls[c].result = "ok") => calls[d].result # "ok"

\* C22: an evaluated idle check (work hours, at least 60 seconds after the
\* next-eligible instant) that finds no completed session shows the first-run
\* prompt and never an idle warning; the first-run prompt appears only in such
\* a check and only while it has not been shown yet in this process; showing
\* it sets the flag, whatever the answer, and the flag is never reset.
C22_FirstRunOnce ==
  [][/\ IdleCheck =>
          /\ (idle_prompt'.kind = "first_run") <=>
               (InWorkHours /\ CheckEligible /\ CompletedEnds = {} /\ ~shown_startup_prompt)
          /\ CompletedEnds = {} => ~IdleSignalled'
          /\ (idle_prompt'.kind = "first_run") => shown_startup_prompt'
     /\ shown_startup_prompt => shown_startup_prompt']_vars

\* a later evaluated check, after the prompt was answered with a start whose
\* session was then cancelled, shows nothing
C22_Witness ==
  /\ shown_startup_prompt
  /\ idle_prompt.kind = "no_session"
  /\ Len(sessions) = 1
  /\ Row(1).status = "cancelled"

PromptShown == idle_prompt.kind \in {"idle", "first_run"}

\* C23: an idle check made less than 60 seconds after the next-eligible
\* instant (the previous evaluated check, or the snooze-until instant) shows
\* no idle or first-run prompt and leaves that instant alone; the instant
\* moves only to now, or to now + 30 minutes when a prompt was shown (the
\* snooze).  After a snooze to 10:01 no prompt appears before 10:01.
C23_NoSignalBeforeEligible ==
  [][IdleCheckZ =>
       /\ (clock - last_idle_check[1] < 60) =>
            (~PromptShown' /\ last_idle_check' = last_idle_check)
       /\ last_idle_check' \in {last_idle_check, Some(clock), Some(clock + 30 * 60)}
       /\ (last_idle_check' # last_idle_check /\ last_idle_check' = Some(clock + 30 * 60)) =>
            PromptShown'
       /\ (last_idle_check = Some(HHMM(10, 1)) /\ clock < HHMM(10, 1)) => ~PromptShown']_vars

\* 59 seconds after the snooze-until instant 10:01, with the last session
\* completed more than an hour ago, the check still shows nothing
C23_Witness ==
  /\ last_idle_check = Some(HHMM(10, 1))
  /\ clock = HHMM(10, 1) + 59
  /\ IdleConditions
  /\ idle_prompt.kind = "too_soon"

OnlyLockedFailures == \A k \in 1..MaxEvents : dbEvents[k] \in {"ok", "connect_locked", "body_locked"}

\* C24: when the only failures of a store operation are 'locked' ones, raised
\* on connecting or while the statement runs, the operation is attempted
\* again after each of them, up to 3 attempts: a success among the first
\* three attempts gives the successful result, and otherwise the caller sees
\* the locked error, never another kind of error.
C24_BodyLockedRetried ==
  (dbCall # NoCall /\ OnlyLockedFailures) =>
    /\ dbCall.result \in {"ok", "LockedError", "StoreLocked"}
    /\ (\E n \in 1..max_retries : dbEvents[n] = "ok") => dbCall.result = "ok"

\* C25: in a running process, whatever store calls have failed, the engine
\* holds a current session exactly when the store has an active row; that row
\* is then the only active one and is the engine's current session, and the
\* engine's target_minutes and paused_duration equal the row's.
C25_EngineStoreAgree ==
  up =>
    /\ is_active <=> (ActiveRows(sessions) # {})
    /\ is_active =>
         /\ ActiveRows(sessions) = {current_session[1].id}
         /\ CurrentRow.target_minutes = current_session[1].target_minutes
         /\ CurrentRow.paused_duration = current_session[1].paused_duration

SinceLastTick == clock - last_tick[1]

\* C26: in the live loop an interval since the last tick of more than the
\* 5-minute threshold always opens the "Still working?" prompt, reporting its
\* whole minutes, before the next tick is recorded; a confirming answer adds
\* exactly the reported minutes to paused_duration, in the engine and in the
\* row, and keeps the session active; a declining answer completes the
\* session.
C26_GapAlwaysPrompted ==
  [][/\ (LoopTop /\ is_active /\ SinceLastTick > 5 * 60) =>
          live' = [At("gap_prompt") EXCEPT !.gap = SinceLastTick \div 60]
     /\ GapAnswerG =>
          \/ /\ is_active'
             /\ current_session'[1].paused_duration =
                  current_session[1].paused_duration + live.gap
             /\ sessions'[current_session[1].id].paused_duration =
                  current_session'[1].paused_duration
             /\ sessions'[current_session[1].id].status = "active"
          \/ /\ ~is_active'
             /\ sessions'[current_session[1].id].status = "completed"]_vars

ElapsedAt(t) == (t - session_start_realtime[1]) \div 60

\* C27: the first tick of the live loop at which the elapsed minutes have
\* reached or passed the session's current target (at the tick before they
\* were still below it) presents the completion choice, however long the
\* loop was stalled in between.
C27_CompletionAlwaysPresented ==
  [][(/\ LoopTick
      /\ ElapsedAt(last_tick[1]) < current_session[1].target_minutes
      /\ ElapsedAt(clock) >= current_session[1].target_minutes) =>
       live'.pc = "complete_prompt"]_vars

EndedOk == lastOp \in {"stop", "cancel"} /\ lastResult = "ok"
StartOk ==
  \E a \in StartInputs, tm \in TargetInputs :
    start_session(a.task, a.dir, tm, "ok", "ok", "ok", MaxSessions)

\* C28: a successful stop() or cancel() leaves the engine idle with current
\* session, file tracker, last tick and elapsed-time start all empty; a
\* start() issued next, its store calls succeeding, is not refused and
\* creates an active session whose id no earlier row has.
C28_IdleAfterEnd ==
  [][/\ EndedOk' =>
          /\ current_session' = Null
          /\ file_tracker' = Null
          /\ last_tick' = Null
          /\ session_start_realtime' = Null
     /\ (EndedOk /\ StartOk) =>
          /\ lastResult' = "ok"
          /\ is_active'
          /\ Len(sessions') = Len(sessions) + 1
          /\ current_session'[1].id = Len(sessions')
          /\ \A i \in DOMAIN sessions : Row(i).id # current_session'[1].id
          /\ sessions'[Len(sessions')].status = "active"
          /\ sessions'[Len(sessions')].id = current_session'[1].id]_vars

C28_Witness ==
  /\ lastOp = "start"
  /\ lastResult = "ok"
  /\ Len(sessions) = 2
  /\ Row(1).status = "completed"
  /\ Row(1).duration_minutes # Null
  /\ current_session # Null
  /\ current_session[1].id = 2
  /\ Row(2).status = "active"

\* C29: every session completed through the live loop has paused_duration <=
\* duration_minutes, so its counted work time, duration_minutes -
\* paused_duration, is not negative.
C29_PausedWithinDuration ==
  \A i \in DOMAIN sessions :
    Row(i).status = "completed" =>
      /\ Row(i).paused_duration <= Row(i).duration_minutes[1]
      /\ Row(i).duration_minutes[1] - Row(i).paused_duration >= 0

\* C30: start() on a running monitor changes nothing, and only the thread of
\* the latest start() ever goes on to invoke the idle callback: a thread
\* created by an earlier start() leaves its loop once stop() was called and
\* does not pass the loop test again after a later start().
C30_SingleMonitorLoop ==
  [][/\ (MonitorStart /\ monitor.running) => UNCHANGED vars
     /\ \A i \in MonitorThreads :
          (calls[i].pc = "check" /\ calls'[i].pc = "callback") => monitor.thread = Some(i)]_vars

====
